---- MODULE Spec2Model ----
(***************************************************************************)
(* Model of the resource-finding pipeline of canvas.py: find_resources and *)
(* the functions it calls (get_courses, get_modules, get_module_items,     *)
(* get_file_url, analyze_image_with_gemini, analyze_query_with_gemini,     *)
(* analyze_resource_relevance).                                            *)
(*                                                                         *)
(* Strings that the code inspects (query, course names, module names,      *)
(* classifier texts) are sequences of one-character strings, so that       *)
(* lower(), split(), "in" and zip() are computed as Python computes them.  *)
(* Scores are percentages (0.8 is 80).  A JSON value is a record with a    *)
(* tag t saying which kind of value it is.                                 *)
(***************************************************************************)
EXTENDS Integers, Sequences, FiniteSets, TLC

(***************************************************************************)
(* Bounds of the model                                                     *)
(***************************************************************************)
MaxCourses == 2      \* longest course listing the platform answers
MaxModules == 2      \* longest module listing the platform answers
MaxItems == 4        \* longest item listing the platform answers

(***************************************************************************)
(* Python string operations                                                *)
(***************************************************************************)
Chars(s) == [i \in 1..Len(s) |-> SubSeq(s, i, i)]

UpperCase == Chars("ABCDEFGHIJKLMNOPQRSTUVWXYZ")

LowerCase == Chars("abcdefghijklmnopqrstuvwxyz")

\* str.lower() on one character
LowerChar(c) ==
    IF \E i \in 1..Len(UpperCase) : UpperCase[i] = c
    THEN LowerCase[CHOOSE i \in 1..Len(UpperCase) : UpperCase[i] = c]
    ELSE c

\* str.lower()
Lower(s) == [i \in 1..Len(s) |-> LowerChar(s[i])]

RECURSIVE SplitAcc(_, _, _, _)
SplitAcc(s, i, cur, acc) ==
    IF i > Len(s)
    THEN IF cur = <<>> THEN acc ELSE Append(acc, cur)
    ELSE IF s[i] = " "
         THEN SplitAcc(s, i + 1, <<>>, IF cur = <<>> THEN acc ELSE Append(acc, cur))
         ELSE SplitAcc(s, i + 1, Append(cur, s[i]), acc)

\* str.split(): the words between runs of blanks
Split(s) == SplitAcc(s, 1, <<>>, <<>>)

\* a in b, for two strings
IsSubstr(a, b) ==
    \E k \in 0..(Len(b) - Len(a)) : SubSeq(b, k + 1, k + Len(a)) = a

\* [w.lower() for w in s.split() if len(w) > n]
LongWords(s, n) == SelectSeq([i \in 1..Len(Split(s)) |-> Lower(Split(s)[i])],
                             LAMBDA w : Len(w) > n)

\* set(w.lower() for w in s.split() if len(w) > n)
WordSet(s, n) == {LongWords(s, n)[i] : i \in 1..Len(LongWords(s, n))}

Digits == Chars("0123456789")

\* str.isalnum() on one character
IsAlnum(c) ==
    \/ \E i \in 1..Len(UpperCase) : UpperCase[i] = c
    \/ \E i \in 1..Len(LowerCase) : LowerCase[i] = c
    \/ \E i \in 1..Len(Digits) : Digits[i] = c

Min(a, b) == IF a < b THEN a ELSE b

Max(a, b) == IF a < b THEN b ELSE a

Range(s) == {s[i] : i \in 1..Len(s)}

\* the absent value of Python
None == <<"None">>

(***************************************************************************)
(* The platform's catalog: what the remote course platform holds.  A       *)
(* listing call answers a prefix of the platform's listing (possibly the   *)
(* empty one) or fails.                                                    *)
(***************************************************************************)
PlatformCourses ==
    << [name |-> Chars("CSE 520: Operating Systems"), id |-> 10],
       [name |-> Chars("MAT 343: Linear Algebra"), id |-> 20],
       [name |-> Chars("Java"), id |-> 30] >>

PlatformModuleNames(course_id) ==
    IF course_id = 10
    THEN << Chars("Process Scheduling"), Chars("Memory"), Chars("Files") >>
    ELSE IF course_id = 20
    THEN << Chars("Orthogonal Matrices"), Chars("Scalars"), Chars("Bases") >>
    ELSE IF course_id = 30
    THEN << Chars("Inheritance"), Chars("Loops"), Chars("Types") >>
    ELSE << >>

\* the modules the platform lists for a course: [{"id": .., "name": ..}, ...]
PlatformModules(course_id) ==
    [k \in 1..Len(PlatformModuleNames(course_id)) |->
        [id |-> course_id * 10 + k, name |-> PlatformModuleNames(course_id)[k]]]

\* An item of a module listing.  content_id = 0 stands for an item that has
\* no "content_id" key.  Titles and URLs are never inspected by the pipeline:
\* they are tokens naming the module and the position they belong to.
PlatformItem(module_id, k) ==
    [id |-> module_id * 10 + k,
     title |-> <<"title", module_id, k>>,
     type |-> IF k = 2 THEN "File" ELSE "Page",
     html_url |-> <<"html_url", module_id, k>>,
     content_id |-> IF k = 2 THEN module_id * 10 + k ELSE 0]

\* how many items the platform holds for a module: the first module of a
\* course is the longest one
PlatformItemCount(module_id) ==
    IF module_id % 10 = 1 THEN MaxItems ELSE IF module_id % 10 = 2 THEN 2 ELSE 1

\* what the platform answers for a file id
PlatformFileUrl(file_id) == <<"file_url", file_id, 0>>

(***************************************************************************)
(* Catalog client                                                          *)
(***************************************************************************)
\* mock_data of get_courses, as the ordered (name, id) pairs of the dict
MockCourses ==
    << [name |-> Chars("Mock Course 1"), id |-> 1001],
       [name |-> Chars("Mock Course 2"), id |-> 1002] >>

\* mock_modules of get_modules
MockModules ==
    << [id |-> 2001, name |-> Chars("Mock Module 1")],
       [id |-> 2002, name |-> Chars("Mock Module 2")] >>

\* mock_items of get_module_items
MockItems ==
    << [id |-> 3001, title |-> <<"Mock Item 1", 0, 0>>, type |-> "Page",
        html_url |-> <<"https://example.com/item1", 0, 0>>, content_id |-> 0],
       [id |-> 3002, title |-> <<"Mock Item 2", 0, 0>>, type |-> "Assignment",
        html_url |-> <<"https://example.com/item2", 0, 0>>, content_id |-> 0] >>

\* the mock URL of get_file_url
MockFileUrl(file_id) == <<"https://example.com/mock-file-.pdf", file_id, 0>>

\* What a listing call of the platform answers: a failure (no credential,
\* non-200 status, timeout, malformed body) or the first n entries.
Failures == {"unconfigured", "bad_status", "exception"}

Answer(kind, n) == [kind |-> kind, n |-> n]

\* the failures a call can meet, given whether CANVAS_API_KEY is set
CallFailures(key) == IF key THEN {"bad_status", "exception"} ELSE {"unconfigured"}

RECURSIVE DictOf(_, _)
\* out.update({course["name"]: course["id"]}) for each course in turn: a
\* repeated name keeps its first position and takes the last id
DictOf(listing, out) ==
    IF listing = <<>> THEN out
    ELSE LET c == Head(listing)
             at == {i \in 1..Len(out) : out[i].name = c.name}
         IN  DictOf(Tail(listing),
                    IF at = {} THEN Append(out, c)
                    ELSE [out EXCEPT ![CHOOSE i \in at : TRUE].id = c.id])

\* get_courses(): the dict it returns, as its (name, id) pairs in order
get_courses(answer) ==
    IF answer.kind # "ok" THEN MockCourses
    ELSE LET out == DictOf(SubSeq(PlatformCourses, 1, answer.n), <<>>)
         IN  IF out # <<>> THEN out ELSE MockCourses

\* get_modules(course_id)
get_modules(answer, course_id) ==
    IF answer.kind # "ok" THEN MockModules
    ELSE LET modules == SubSeq(PlatformModules(course_id), 1, answer.n)
         IN  IF modules # <<>> THEN modules ELSE MockModules

\* get_module_items(course_id, module_id)
get_module_items(answer, module_id) ==
    IF answer.kind # "ok" THEN MockItems
    ELSE LET items == [k \in 1..answer.n |-> PlatformItem(module_id, k)]
         IN  IF items # <<>> THEN items ELSE MockItems

\* get_file_url(course_id, file_id)
get_file_url(answer, file_id) ==
    IF answer.kind # "ok" THEN MockFileUrl(file_id) ELSE PlatformFileUrl(file_id)

\* dict lookups on the (name, id) pairs
Keys(courses) == {courses[i].name : i \in 1..Len(courses)}

IdOf(courses, name) == courses[CHOOSE i \in 1..Len(courses) : courses[i].name = name].id

(***************************************************************************)
(* JSON / Python values.  json.loads maps null to None, so JNull is also   *)
(* Python's None.                                                          *)
(***************************************************************************)
JNull == [t |-> "null"]

JNumber(n) == [t |-> "num", v |-> n]

JString(s) == [t |-> "str", v |-> s]

JList(seq) == [t |-> "list", v |-> seq]

\* fields: a function from the keys (strings) to the values
JObject(fields) == [t |-> "obj", v |-> fields]

\* an exception raised inside a try block
PyError == [t |-> "error"]

\* key in obj, for a dict
HasKey(obj, key) == obj.t = "obj" /\ key \in DOMAIN obj.v

\* obj.get(key, default), for a dict
Get(obj, key, default) == IF key \in DOMAIN obj.v THEN obj.v[key] ELSE default

\* the value with one key set: result[key] = value
SetKey(obj, key, value) ==
    JObject([k \in DOMAIN obj.v \cup {key} |-> IF k = key THEN value ELSE obj.v[k]])

RECURSIVE Concat(_)
Concat(seqs) == IF seqs = <<>> THEN <<>> ELSE Head(seqs) \o Concat(Tail(seqs))

RECURSIVE SetToSeq(_)
SetToSeq(S) == IF S = {} THEN <<>>
               ELSE LET x == CHOOSE x \in S : TRUE IN <<x>> \o SetToSeq(S \ {x})

RECURSIVE Dump(_)
\* The text of a JSON value, as far as the code reads it: the code only
\* searches the text for course and module names, so numbers are written as
\* "0" and a quote as '.
Dump(value) ==
    CASE value.t = "null" -> Chars("null")
      [] value.t = "num" -> Chars("0")
      [] value.t = "str" -> Chars("'") \o value.v \o Chars("'")
      [] value.t = "list" ->
            Chars("[") \o Concat([i \in 1..Len(value.v) |-> Dump(value.v[i]) \o Chars(",")])
                       \o Chars("]")
      [] value.t = "obj" ->
            LET keys == SetToSeq(DOMAIN value.v)
            IN  Chars("{")
                \o Concat([i \in 1..Len(keys) |->
                             Chars("'") \o Chars(keys[i]) \o Chars("':")
                             \o Dump(value.v[keys[i]]) \o Chars(",")])
                \o Chars("}")

(***************************************************************************)
(* What model.generate_content(prompt) does: it raises (an API error, a    *)
(* timeout), or it answers a text that json.loads rejects, or a text that  *)
(* json.loads parses to a value.                                           *)
(***************************************************************************)
Raises == [kind |-> "exception", text |-> <<>>, value |-> JNull]

Text(s) == [kind |-> "text", text |-> s, value |-> JNull]

Json(value) == [kind |-> "json", text |-> Dump(value), value |-> value]

(***************************************************************************)
(* analyze_query_with_gemini(query, courses): the course stage             *)
(***************************************************************************)
\* the dict literals the function returns
CourseGuess(name, confidence, reasoning) ==
    JObject([course_name |-> JString(name), confidence |-> JNumber(confidence),
             reasoning |-> JString(Chars(reasoning))])

\* the "except:" branch of the course stage: the first course whose lowercased
\* name occurs in the lowercased response text, else the first course
CourseFromText(text, courses) ==
    LET hits == {i \in 1..Len(courses) : IsSubstr(Lower(courses[i].name), Lower(text))}
    IN  IF hits # {}
        THEN CourseGuess(courses[CHOOSE i \in hits : \A j \in hits : i <= j].name, 70,
                         "Extracted from response")
        ELSE CourseGuess(courses[1].name, 50, "Default selection")

\* sum(1 for a, b in zip(name.lower(), guess.lower()) if a == b)
Similarity(name, guess) ==
    Cardinality({i \in 1..Min(Len(name), Len(guess)) : Lower(name)[i] = Lower(guess)[i]})

RECURSIVE ClosestCourse(_, _, _, _)
\* The loop over the courses that keeps the name of the highest similarity
\* score; the score similarity / max(len(name), len(guess)) is kept as the
\* fraction num / den.
ClosestCourse(courses, guess, i, best) ==
    IF i > Len(courses) THEN best
    ELSE LET name == courses[i].name
             num == Similarity(name, guess)
             den == Max(Len(name), Len(guess))
         IN  ClosestCourse(courses, guess, i + 1,
                           IF num * best.den > best.num * den
                           THEN [match |-> name, num |-> num, den |-> den]
                           ELSE best)

\* the try branch of the course stage, for a parsed response; PyError stands
\* for an exception raised in it, which the bare "except:" catches
ValidateCourse(result, courses) ==
    CASE result.t \in {"null", "num"} -> PyError        \* "course_name" in result
      [] result.t = "list" ->
            IF JString(Chars("course_name")) \in Range(result.v)
            THEN PyError                                \* result["course_name"]
            ELSE result
      [] result.t = "str" ->
            IF IsSubstr(Chars("course_name"), result.v) THEN PyError ELSE result
      [] result.t = "obj" ->
            IF ~HasKey(result, "course_name") THEN result
            ELSE LET cn == result.v.course_name
                 IN  IF cn.t \in {"list", "obj"} THEN PyError      \* unhashable
                     ELSE IF cn.t = "str" /\ cn.v \in Keys(courses) THEN result
                     ELSE IF cn.t # "str" THEN PyError             \* .lower()
                     ELSE LET best == ClosestCourse(courses, cn.v, 1,
                                        [match |-> None, num |-> 0, den |-> 1])
                          IN  IF 2 * best.num > best.den           \* > 0.5
                              THEN IF ~HasKey(result, "reasoning")
                                      \/ result.v.reasoning.t # "str"
                                   THEN PyError                    \* reasoning +=
                                   ELSE SetKey(SetKey(result, "course_name",
                                                      JString(best.match)),
                                               "reasoning",
                                               JString(result.v.reasoning.v \o
                                                 Chars(" (fixed invalid course name to closest match)")))
                              ELSE SetKey(SetKey(SetKey(result, "course_name",
                                                        JString(courses[1].name)),
                                                 "confidence", JNumber(50)),
                                          "reasoning",
                                          JString(Chars("Default selection (invalid course name from LLM)")))

\* analyze_query_with_gemini(query, courses), given what generate_content does
AnalyzeCourse(response, courses) ==
    IF response.kind = "exception"
    THEN CourseGuess(courses[1].name, 50, "Default selection due to error")
    ELSE IF response.kind = "text" THEN CourseFromText(response.text, courses)
    ELSE LET validated == ValidateCourse(response.value, courses)
         IN  IF validated = PyError THEN CourseFromText(response.text, courses)
             ELSE validated

(***************************************************************************)
(* find_resources: course resolution                                       *)
(***************************************************************************)
\* what a step of find_resources ends with: a value, or an exception
Returned(value) == [raised |-> "none", value |-> value]

Raised(exception) == [raised |-> exception, value |-> None]

RECURSIVE MatchCourses(_, _, _, _, _)
\* The loop "for name in courses" of the partial matching: best is
\* best_match with best_match_score as the fraction num / den.  course_name
\* is the value of course_analysis.get("course_name").
MatchCourses(courses, course_name, query, i, best) ==
    IF i > Len(courses) THEN Returned(best)
    ELSE LET name == courses[i].name
             query_words == WordSet(query, 3)
             name_words == WordSet(name, 3)
             overlap == Cardinality(query_words \cap name_words)
             den == Min(Cardinality(query_words), Cardinality(name_words))
         IN  IF query_words # {} /\ name_words # {}
             THEN MatchCourses(courses, course_name, query, i + 1,
                               IF overlap * best.den > best.num * den
                               THEN [match |-> name, num |-> overlap, den |-> den]
                               ELSE best)
             ELSE IF course_name.t # "str"
             THEN Raised("AttributeError")               \* course_name.lower()
             ELSE IF IsSubstr(Lower(course_name.v), Lower(name))
                     \/ IsSubstr(Lower(name), Lower(course_name.v))
             THEN MatchCourses(courses, course_name, query, i + 1,
                               IF best.match = None
                               THEN [best EXCEPT !.match = name]
                               ELSE best)
             ELSE MatchCourses(courses, course_name, query, i + 1, best)

\* the first course, in the dict's order, whose lowercased name contains a
\* query word longer than 4 characters; None when there is none
KeywordCourse(courses, query) ==
    LET query_keywords == LongWords(query, 4)
        hits == {i \in 1..Len(courses) :
                    \E k \in 1..Len(query_keywords) :
                        IsSubstr(query_keywords[k], Lower(courses[i].name))}
    IN  IF hits = {} THEN None
        ELSE courses[CHOOSE i \in hits : \A j \in hits : i <= j].name

\* truth value of best_match: None and the empty string are false
Truthy(s) == s # None /\ s # <<>>

\* a variant of ExactMatch that never recognises the guess
NoExactMatch(course_name, courses) == FALSE

\* line 726: course_name in courses, for a course_name that can be hashed
ExactMatch(course_name, courses) ==
    course_name.t = "str" /\ course_name.v \in Keys(courses)

\* a variant of FirstCourse that has no last resort
NoFirstCourse(courses) == None

\* line 774: list(courses.keys())[0]
FirstCourse(courses) == courses[1].name

\* Lines 726-775: the course name that courses[course_name] is looked up with
ResolveCourse(course_name, query, courses) ==
    IF course_name.t \in {"list", "obj"} THEN Raised("TypeError")   \* unhashable
    ELSE IF ExactMatch(course_name, courses)
    THEN Returned(course_name.v)
    ELSE LET matched == MatchCourses(courses, course_name, query, 1,
                                     [match |-> None, num |-> 0, den |-> 1])
             best == matched.value
         IN  IF matched.raised # "none" THEN matched
             ELSE IF Truthy(best.match) /\ 5 * best.num >= best.den   \* >= 0.2
             THEN Returned(best.match)
             ELSE IF Truthy(best.match) THEN Returned(best.match)
             ELSE IF KeywordCourse(courses, query) # None
             THEN Returned(KeywordCourse(courses, query))
             ELSE Returned(FirstCourse(courses))

(***************************************************************************)
(* analyze_query_with_gemini(query, courses, course_modules): module stage *)
(***************************************************************************)
Names(course_modules) == [i \in 1..Len(course_modules) |-> course_modules[i].name]

ModuleGuess(names, explanation) ==
    JObject([module_names |-> JList([i \in 1..Len(names) |-> JString(names[i])]),
             relevance_explanations |->
                 JList([i \in 1..Len(explanation) |-> JString(Chars(explanation[i]))])])

\* the "except:" branch of the module stage: the modules whose lowercased
\* name occurs in the lowercased response text, else the first module; at
\* most 3 of them
ModulesFromText(text, course_modules) ==
    LET relevant == SelectSeq(Names(course_modules),
                              LAMBDA name : IsSubstr(Lower(name), Lower(text)))
        chosen == IF relevant = <<>> /\ course_modules # <<>>
                  THEN <<course_modules[1].name>> ELSE relevant
        first3 == SubSeq(chosen, 1, Min(3, Len(chosen)))
    IN  ModuleGuess(first3, [i \in 1..Len(first3) |-> "Extracted from response"])

\* the first valid name that contains the lowercased name or is contained in it
CloseModule(name, valid_module_names) ==
    LET hits == {i \in 1..Len(valid_module_names) :
                    \/ IsSubstr(Lower(name), Lower(valid_module_names[i]))
                    \/ IsSubstr(Lower(valid_module_names[i]), Lower(name))}
    IN  IF hits = {} THEN <<>>
        ELSE <<valid_module_names[CHOOSE i \in hits : \A j \in hits : i <= j]>>

RECURSIVE ValidNames(_, _, _)
\* the loop "for name in result['module_names']" building valid_results;
\* it raises when an element is not a string (name.lower())
ValidNames(names, valid_module_names, valid_results) ==
    IF names = <<>> THEN Returned(valid_results)
    ELSE LET name == Head(names)
         IN  IF name.t = "str" /\ name.v \in Range(valid_module_names)
             THEN ValidNames(Tail(names), valid_module_names,
                             Append(valid_results, name.v))
             ELSE IF name.t # "str" THEN Raised("AttributeError")
             ELSE ValidNames(Tail(names), valid_module_names,
                             valid_results \o CloseModule(name.v, valid_module_names))

\* what "for name in x" iterates over: the elements of a list, the
\* characters of a string, the keys of a dict; a number or null raises
Iterate(x) ==
    CASE x.t = "list" -> Returned(x.v)
      [] x.t = "str" -> Returned([i \in 1..Len(x.v) |-> JString(<<x.v[i]>>)])
      [] x.t = "obj" -> Returned([i \in 1..Len(SetToSeq(DOMAIN x.v)) |->
                                     JString(Chars(SetToSeq(DOMAIN x.v)[i]))])
      [] OTHER -> Raised("TypeError")

\* the try branch of the module stage, for a parsed response
ValidateModules(result, course_modules) ==
    CASE result.t \in {"null", "num"} -> PyError        \* "module_names" in result
      [] result.t = "list" ->
            IF JString(Chars("module_names")) \in Range(result.v)
            THEN PyError ELSE result
      [] result.t = "str" ->
            IF IsSubstr(Chars("module_names"), result.v) THEN PyError ELSE result
      [] result.t = "obj" ->
            IF ~HasKey(result, "module_names") THEN result
            ELSE LET names == Iterate(result.v.module_names)
                     valid == IF names.raised # "none" THEN names
                              ELSE ValidNames(names.value, Names(course_modules), <<>>)
                     valid_results == valid.value
                 IN  IF valid.raised # "none" THEN PyError
                     ELSE IF valid_results = <<>> /\ course_modules # <<>>
                     THEN SetKey(SetKey(result, "module_names",
                                        JList(<<JString(course_modules[1].name)>>)),
                                 "relevance_explanations",
                                 JList(<<JString(Chars("Default selection (no valid matches)"))>>))
                     ELSE SetKey(result, "module_names",
                                 JList([i \in 1..Len(valid_results) |->
                                            JString(valid_results[i])]))

\* analyze_query_with_gemini(query, courses, course_modules)
AnalyzeModules(response, course_modules) ==
    IF response.kind = "exception"
    THEN ModuleGuess(IF course_modules # <<>> THEN <<course_modules[1].name>> ELSE <<>>,
                     <<"Default selection due to error">>)
    ELSE IF response.kind = "text" THEN ModulesFromText(response.text, course_modules)
    ELSE LET validated == ValidateModules(response.value, course_modules)
         IN  IF validated = PyError THEN ModulesFromText(response.text, course_modules)
             ELSE validated

(***************************************************************************)
(* find_resources: module resolution (lines 789-809)                       *)
(***************************************************************************)
\* a variant of KeywordInName that finds no keyword in any name
NoKeywordInName(query, name) == FALSE

\* any(keyword.lower() in module["name"].lower()
\*     for keyword in query.lower().split() if len(keyword) > 3)
KeywordInName(query, name) ==
    \E k \in 1..Len(LongWords(query, 3)) : IsSubstr(LongWords(query, 3)[k], Lower(name))

ResolveModules(module_analysis, query, modules) ==
    IF module_analysis.t # "obj" THEN Raised("AttributeError")        \* .get
    ELSE LET relevant_module_names == Get(module_analysis, "module_names", JList(<<>>))
             relevant_modules ==
                 SelectSeq(modules,
                           LAMBDA module :
                               \/ JString(module.name) \in Range(relevant_module_names.v)
                               \/ KeywordInName(query, module.name))
         IN  IF relevant_modules = <<>> /\ modules # <<>>
             THEN Returned(SubSeq(modules, 1, Min(2, Len(modules))))
             ELSE Returned(relevant_modules)

(***************************************************************************)
(* analyze_resource_relevance(query, resource_items, course_name,          *)
(* module_name)                                                            *)
(***************************************************************************)
FallbackCount == 3       \* min(3, len(resource_items))

FallbackScore == 80      \* [0.8] * ...

MissingScore == 50       \* ... else 0.5

\* the default selection: the first min(3, N) indices, each with score 0.8
DefaultResources(n_items, reasoning) ==
    LET n == Min(FallbackCount, n_items)
    IN  JObject([resource_indices |-> JList([i \in 1..n |-> JNumber(i - 1)]),
                 relevance_scores |-> JList([i \in 1..n |-> JNumber(FallbackScore)]),
                 reasoning |-> JString(Chars(reasoning))])

\* json.loads(response.text) is returned as it is; only a text that is not
\* JSON, or an exception of the call, gives the default selection
AnalyzeResources(response, resource_items) ==
    IF response.kind = "exception"
    THEN DefaultResources(Len(resource_items), "Default selection due to API error")
    ELSE IF response.kind = "text"
    THEN DefaultResources(Len(resource_items), "Default selection due to parsing error")
    ELSE response.value

(***************************************************************************)
(* find_resources: collecting the resources of one module (lines 832-859)  *)
(***************************************************************************)
\* resource_analysis.get("resource_indices", []) and enumerate() of it
RelevantIndices(resource_analysis) ==
    IF resource_analysis.t # "obj" THEN Raised("AttributeError")      \* .get
    ELSE Iterate(Get(resource_analysis, "resource_indices", JList(<<>>)))

\* relevance_scores[idx_pos] if idx_pos < len(relevance_scores) else 0.5
\* (idx_pos counts from 0)
ScoreAt(relevance_scores, idx_pos) ==
    CASE relevance_scores.t = "list" ->
            IF idx_pos < Len(relevance_scores.v)
            THEN Returned(relevance_scores.v[idx_pos + 1])
            ELSE Returned(JNumber(MissingScore))
      [] relevance_scores.t = "str" ->
            IF idx_pos < Len(relevance_scores.v)
            THEN Returned(JString(<<relevance_scores.v[idx_pos + 1]>>))
            ELSE Returned(JNumber(MissingScore))
      [] relevance_scores.t = "obj" ->
            IF idx_pos < Cardinality(DOMAIN relevance_scores.v)
            THEN Raised("KeyError")
            ELSE Returned(JNumber(MissingScore))
      [] OTHER -> Raised("TypeError")                                 \* len()

\* a variant of ItemAt that counts a negative index from the start
ItemAtFromStart(items, idx) ==
    IF idx >= Len(items) \/ idx < 0 - Len(items) THEN Raised("IndexError")
    ELSE IF idx >= 0 THEN Returned(items[idx + 1])
    ELSE Returned(items[0 - idx])

\* items[idx] for an integer idx < len(items): Python counts a negative
\* index from the end, and raises below -len(items)
ItemAt(items, idx) ==
    IF idx >= Len(items) THEN Raised("IndexError")
    ELSE IF idx >= 0 THEN Returned(items[idx + 1])
    ELSE IF idx >= 0 - Len(items) THEN Returned(items[Len(items) + idx + 1])
    ELSE Raised("IndexError")

\* a variant of Resource that files the module under "course" and the
\* course under "module"
ResourceSwapped(item, url, course_name, module_name, score) ==
    [title |-> item.title, type |-> item.type, url |-> url,
     course |-> module_name, module |-> course_name, relevance_score |-> score]

\* the dict built for one item
Resource(item, url, course_name, module_name, score) ==
    [title |-> item.title, type |-> item.type, url |-> url,
     course |-> course_name, module |-> module_name, relevance_score |-> score]

\* a variant of InRange that lets the index len(items) through
InRangeInclusive(idx, items) == idx <= Len(items)

\* line 840: idx < len(items)
InRange(idx, items) == idx < Len(items)

\* One turn of "for idx_pos, idx in enumerate(relevant_indices)": the
\* resources to append (none or one), or the exception raised.  file_answer
\* is what the platform does if get_file_url is called.
CollectOne(idx, idx_pos, items, relevance_scores, course_name, module_name, file_answer) ==
    IF idx.t # "num" THEN Raised("TypeError")                 \* idx < len(items)
    ELSE IF ~InRange(idx.v, items) THEN Returned(<<>>)
    ELSE LET item == ItemAt(items, idx.v)
             score == ScoreAt(relevance_scores, idx_pos)
         IN  IF item.raised # "none" THEN item
             ELSE IF score.raised # "none" THEN score
             ELSE LET url == IF item.value.type = "File" /\ item.value.content_id # 0
                             THEN get_file_url(file_answer, item.value.content_id)
                             ELSE item.value.html_url
                  IN  Returned(<<Resource(item.value, url, course_name, module_name,
                                          score.value)>>)

\* whether get_file_url is called for index idx
CallsFileUrl(idx, items) ==
    /\ idx.t = "num" /\ InRange(idx.v, items)
    /\ ItemAt(items, idx.v).raised = "none"
    /\ ItemAt(items, idx.v).value.type = "File"
    /\ ItemAt(items, idx.v).value.content_id # 0

(***************************************************************************)
(* find_resources: the sort of line 862                                    *)
(***************************************************************************)
\* the characters of the model's strings, in the order of their code points
CodePoints ==
    Chars(" -0123456789:ABCDEFGHIJKLMNOPQRSTUVWXYZabcdefghijklmnopqrstuvwxyz")

Ord(c) == IF \E i \in 1..Len(CodePoints) : CodePoints[i] = c
          THEN CHOOSE i \in 1..Len(CodePoints) : CodePoints[i] = c
          ELSE 0

RECURSIVE StrLess(_, _)
\* a < b for two strings
StrLess(a, b) ==
    IF b = <<>> THEN FALSE
    ELSE IF a = <<>> THEN TRUE
    ELSE IF Ord(Head(a)) # Ord(Head(b)) THEN Ord(Head(a)) < Ord(Head(b))
    ELSE StrLess(Tail(a), Tail(b))

\* a < b for two sort keys that Python can compare
KeyLess(a, b) == IF a.t = "num" THEN a.v < b.v ELSE StrLess(a.v, b.v)

\* Python compares numbers with numbers and strings with strings; any other
\* pair of scores raises TypeError (scores are numbers, strings or null in
\* the answers drawn)
Comparable(a, b) == a.t = b.t /\ a.t \in {"num", "str"}

RECURSIVE InsertDescUnstable(_, _)
\* a variant of InsertDesc that puts x before the elements with an equal key
InsertDescUnstable(sorted, x) ==
    IF sorted = <<>> THEN <<x>>
    ELSE IF ~KeyLess(x.relevance_score, Head(sorted).relevance_score)
    THEN <<x>> \o sorted
    ELSE <<Head(sorted)>> \o InsertDescUnstable(Tail(sorted), x)

RECURSIVE InsertDesc(_, _)
\* x put into a list sorted by non-increasing key, after the elements whose
\* key is not less than its own
InsertDesc(sorted, x) ==
    IF sorted = <<>> THEN <<x>>
    ELSE IF KeyLess(Head(sorted).relevance_score, x.relevance_score)
    THEN <<x>> \o sorted
    ELSE <<Head(sorted)>> \o InsertDesc(Tail(sorted), x)

RECURSIVE SortDesc(_, _)
SortDesc(resources, sorted) ==
    IF resources = <<>> THEN sorted
    ELSE SortDesc(Tail(resources), InsertDesc(sorted, Head(resources)))

\* all_relevant_resources.sort(key=lambda x: x.get("relevance_score", 0),
\*                             reverse=True): a stable sort, which raises
\* TypeError when it has to compare two keys that cannot be compared
SortByScore(resources) ==
    IF Len(resources) >= 2
       /\ \E i, j \in 1..Len(resources) :
            ~Comparable(resources[i].relevance_score, resources[j].relevance_score)
    THEN Raised("TypeError")
    ELSE Returned(SortDesc(resources, <<>>))

(***************************************************************************)
(* analyze_image_with_gemini(image_path), for a file that exists           *)
(***************************************************************************)
\* response.text of a successful image analysis
ImageConcept == Chars("scalars and orthogonal matrices")

\* what the function returns: the classifier's text, or the string of the
\* failing step
analyze_image_with_gemini(outcome) ==
    CASE outcome = "ok" -> ImageConcept
      [] outcome = "not_found" -> Chars("Image could not be analyzed - file not found")
      [] outcome = "encode_error" -> Chars("Image could not be encoded properly")
      [] outcome = "api_error" ->
            Chars("Error analyzing image with AI - please try a text query instead")
      [] OTHER -> Chars("Error analyzing image - please try a text query instead")

\* a variant of CombineQuery that drops the text of the request
ConceptOnly(query, image_query) == image_query

\* query = f"{query} - {image_query}" if query else image_query
CombineQuery(query, image_query) ==
    IF query # <<>> THEN query \o Chars(" - ") \o image_query ELSE image_query

(***************************************************************************)
(* The working directory, which every request of the process shares.  It   *)
(* is writable: os.access(os.getcwd(), os.W_OK) is true, as it is where     *)
(* the program is run from.                                                *)
(***************************************************************************)
\* lines 78-86: get_courses saves a non-empty mapping
SavesCourses(answer) ==
    answer.kind = "ok" /\ DictOf(SubSeq(PlatformCourses, 1, answer.n), <<>>) # <<>>

\* lines 144-152: get_modules saves a non-empty listing
SavesModules(answer, course_id) ==
    answer.kind = "ok" /\ SubSeq(PlatformModules(course_id), 1, answer.n) # <<>>

\* line 872: "".join(c if c.isalnum() else "_" for c in query)[:50]
SafeQuery(query) ==
    SubSeq([i \in 1..Len(query) |-> IF IsAlnum(query[i]) THEN query[i] ELSE "_"],
           1, Min(Len(query), 50))

\* line 873: f"resources_{safe_query}.json"
ResourcesFile(query) == Chars("resources_") \o SafeQuery(query) \o Chars(".json")

\* lines 868-875: find_resources saves a non-empty list of resources
SaveResources(files, resources, query) ==
    IF resources # <<>> THEN files \cup {ResourcesFile(query)} ELSE files

\* os.path.exists(image_path), for an image_path that is not None
PathExists(path, files) == Chars(path) \in files

\* the working directory when the requests begin: the file named "exists"
\* is there and nothing the program saves is
InitialFiles == {Chars("exists")}

(***************************************************************************)
(* Inputs of a request and behaviours of the collaborators                 *)
(***************************************************************************)
ScenarioQuery == Chars("How do process scheduling algorithms work in operating systems?")

Queries == {<<>>, Chars("hi"), ScenarioQuery, Chars("orthogonal matrices mean")}

\* the queries that are sent together with an image path
ImageQueries == {<<>>, Chars("hi")}

ImageOutcomes == {"ok", "not_found", "encode_error", "api_error", "error"}

Reasoned(name) == JObject([course_name |-> JString(Chars(name)), confidence |-> JNumber(90),
                           reasoning |-> JString(Chars("because"))])

CourseResponses ==
    { Raises,
      Text(Chars("I would pick MAT 343: Linear Algebra here")),
      Text(Chars("no idea")),
      Json(JList(<<>>)),
      Json(JString(Chars("CSE 520"))),
      Json(JNumber(0)),
      Json(Reasoned("MAT 343: Linear Algebra")),
      Json(Reasoned("Mock Course 2")),
      Json(Reasoned("CSE520")),
      Json(Reasoned("Algebra")),
      Json(Reasoned("mat 343: linear algebra")),
      Json(JObject([course_name |-> JString(Chars("mat 343: linear algebra"))])),
      Json(JObject([course_name |-> JString(Chars("MAT 343: Linear Algebr"))])),
      Json(JObject([course_name |-> JNumber(0)])),
      Json(JObject([confidence |-> JNumber(90)])) }

NamedModules(names) ==
    JObject([module_names |-> JList([i \in 1..Len(names) |-> JString(Chars(names[i]))]),
             relevance_explanations |-> JList(<<>>)])

ModuleResponses ==
    { Raises,
      Text(Chars("look at memory or at scalars")),
      Text(Chars("no idea")),
      Json(JList(<<>>)),
      Json(JNumber(0)),
      Json(NamedModules(<<"Memory", "Scalars", "Loops", "Mock Module 2">>)),
      Json(NamedModules(<<"sched", "matri", "Files", "Bases">>)),
      Json(NamedModules(<<"zzz">>)),
      Json(JObject([module_names |-> JNumber(0)])),
      Json(JObject([module_names |-> JList(<<JNumber(0)>>)])),
      Json(JObject([relevance_explanations |-> JList(<<>>)])) }

Picked(indices, scores) ==
    JObject([resource_indices |-> JList(indices), relevance_scores |-> JList(scores),
             reasoning |-> JString(Chars("because"))])

Nums(seq) == [i \in 1..Len(seq) |-> JNumber(seq[i])]

ResourceResponses ==
    { Raises,
      Text(Chars("no idea")),
      Json(JList(<<>>)),
      Json(JObject([reasoning |-> JString(Chars("because"))])),
      Json(Picked(Nums(<<0, 1>>), Nums(<<90, 40>>))),
      Json(Picked(Nums(<<0, 1>>), Nums(<<95, 30>>))),
      Json(Picked(Nums(<<1, MaxItems, 0>>), Nums(<<80, 80, 80>>))),
      Json(Picked(Nums(<<0 - 1, 0>>), Nums(<<70>>))),
      Json(Picked(Nums(<<0 - MaxItems - 1>>), Nums(<<70>>))),
      Json(Picked(<<JString(Chars("a"))>>, Nums(<<70>>))),
      Json(Picked(Nums(<<0, 1>>), <<JString(Chars("high")), JNumber(50)>>)),
      Json(JObject([resource_indices |-> JList(Nums(<<0>>)),
                    relevance_scores |-> JNumber(80)])) }

\* the answers of the platform to a listing call of at most max entries
ListingAnswers(key, max) ==
    {Answer(f, 0) : f \in CallFailures(key)}
    \cup (IF key THEN {Answer("ok", n) : n \in 0..max} ELSE {})

(***************************************************************************)
(* One run of find_resources(query, image_path)                            *)
(***************************************************************************)
VARIABLES
    pc,                      \* the place find_resources has reached
    canvas_key,              \* whether CANVAS_API_KEY is set
    image_path,              \* "none", or a path
    input_query,             \* the query argument
    query,                   \* the local variable query
    courses, course_analysis, course_name, course_id,
    modules, module_analysis, relevant_modules,
    mi,                      \* position of "for module in relevant_modules"
    items, resource_analysis, relevant_indices, relevance_scores,
    idx_pos,                 \* position of "for idx_pos, idx in enumerate(...)"
    all_relevant_resources,
    result,                  \* the list returned
    raised,                  \* the exception find_resources ends with, or "none"
    calls,                   \* the calls made to the collaborators, in order
    platform,                \* what the platform did at the catalog call just made
    oracle,                  \* the classifier's response the stage in progress uses
    appended,                \* every resource appended, in the order of the appends
    module_start,            \* len(all_relevant_resources) when the module's turn began
    listed,                  \* the item listings fetched: (module name, items) in order
    http_response,           \* what resources_endpoint answers: status code and body
    disk,                    \* the paths that exist in the working directory
    other                    \* the place another request has reached, or "absent"

vars == <<pc, canvas_key, image_path, input_query, query, courses, course_analysis,
          course_name, course_id, modules, module_analysis, relevant_modules, mi,
          items, resource_analysis, relevant_indices, relevance_scores, idx_pos,
          all_relevant_resources, result, raised, calls, platform, oracle, appended,
          module_start, listed, http_response, disk, other>>

catalog_vars == <<courses, course_name, course_id, modules, relevant_modules, mi, items>>

analysis_vars == <<course_analysis, module_analysis, resource_analysis,
                   relevant_indices, relevance_scores, idx_pos>>

input_vars == <<canvas_key, image_path, input_query>>

history_vars == <<module_start, listed>>

endpoint_vars == <<http_response>>

shared_vars == <<disk, other>>

\* resources_endpoint has not answered
NoResponse == [status |-> 0, body |-> <<>>]

Call(fn, arg) == [fn |-> fn, arg |-> arg]

NoAnswer == Answer("none", 0)

Init ==
    /\ pc = "start"
    /\ canvas_key \in BOOLEAN
    /\ image_path \in {"none", "missing", "exists"}
    /\ input_query \in (IF image_path = "none" THEN Queries ELSE ImageQueries)
    /\ query = input_query
    /\ courses = <<>> /\ course_analysis = JNull /\ course_name = None /\ course_id = 0
    /\ modules = <<>> /\ module_analysis = JNull /\ relevant_modules = <<>> /\ mi = 0
    /\ items = <<>> /\ resource_analysis = JNull
    /\ relevant_indices = <<>> /\ relevance_scores = JNull /\ idx_pos = 0
    /\ all_relevant_resources = <<>>
    /\ result = <<>>
    /\ raised = "none"
    /\ calls = <<>>
    /\ platform = NoAnswer
    /\ oracle = Raises
    /\ appended = <<>>
    /\ module_start = 0
    /\ listed = <<>>
    /\ http_response = NoResponse
    /\ disk = InitialFiles
    /\ other = "absent"

\* find_resources ends with an exception
Raise(exception) ==
    /\ pc' = "done"
    /\ raised' = exception
    /\ result' = <<>>

\* find_resources returns value
Return(value) ==
    /\ pc' = "done"
    /\ raised' = "none"
    /\ result' = value

\* lines 695-704: the image, if there is one, is turned into (a part of) the query
ImageStage ==
    /\ pc = "start"
    /\ IF image_path # "none" /\ PathExists(image_path, disk)
       THEN \E outcome \in ImageOutcomes :
               /\ query' = CombineQuery(query, analyze_image_with_gemini(outcome))
               /\ calls' = Append(calls, Call("analyze_image_with_gemini", 0))
       ELSE UNCHANGED <<query, calls>>
    /\ pc' = "get_courses"
    /\ UNCHANGED <<history_vars, input_vars, endpoint_vars, shared_vars, catalog_vars, analysis_vars, all_relevant_resources,
                   result, raised, platform, oracle, appended>>

\* lines 707-710
GetCourses ==
    /\ pc = "get_courses"
    /\ \E answer \in ListingAnswers(canvas_key, MaxCourses) :
          /\ platform' = answer
          /\ courses' = get_courses(answer)
          /\ disk' = IF SavesCourses(answer) THEN disk \cup {Chars("courses.json")} ELSE disk
    /\ calls' = Append(calls, Call("get_courses", 0))
    /\ IF courses' = <<>>
       THEN Return(<<[error |-> "No courses found",
                      details |-> "Please check your Canvas API configuration"]>>)
       ELSE pc' = "classify_course" /\ UNCHANGED <<result, raised>>
    /\ UNCHANGED <<history_vars, input_vars, endpoint_vars, other, query, course_name, course_id, modules, relevant_modules,
                   mi, items, analysis_vars, all_relevant_resources, oracle, appended>>

\* line 717
ClassifyCourse ==
    /\ pc = "classify_course"
    /\ \E response \in CourseResponses :
          /\ oracle' = response
          /\ course_analysis' = AnalyzeCourse(response, courses)
    /\ calls' = Append(calls, Call("classify_course", 0))
    /\ pc' = "resolve_course"
    /\ platform' = NoAnswer
    /\ UNCHANGED <<history_vars, input_vars, endpoint_vars, shared_vars, query, catalog_vars, module_analysis, resource_analysis,
                   relevant_indices, relevance_scores, idx_pos, all_relevant_resources,
                   result, raised, appended>>

\* lines 718-778
ResolveCourseName ==
    /\ pc = "resolve_course"
    /\ IF course_analysis.t # "obj"
       THEN Raise("AttributeError") /\ UNCHANGED <<course_name, course_id>>  \* .get
       ELSE LET resolved == ResolveCourse(Get(course_analysis, "course_name", JNull),
                                          query, courses)
            IN  IF resolved.raised # "none"
                THEN Raise(resolved.raised) /\ UNCHANGED <<course_name, course_id>>
                ELSE IF resolved.value \notin Keys(courses)
                THEN Raise("KeyError") /\ UNCHANGED <<course_name, course_id>>
                ELSE /\ course_name' = resolved.value
                     /\ course_id' = IdOf(courses, resolved.value)
                     /\ pc' = "get_modules"
                     /\ UNCHANGED <<result, raised>>
    /\ UNCHANGED <<history_vars, input_vars, endpoint_vars, shared_vars, query, courses, modules, relevant_modules, mi, items,
                   analysis_vars, all_relevant_resources, calls, platform, oracle,
                   appended>>

\* lines 781-784
GetModules ==
    /\ pc = "get_modules"
    /\ \E answer \in ListingAnswers(canvas_key, Min(MaxModules, Len(PlatformModules(course_id)))) :
          /\ platform' = answer
          /\ modules' = get_modules(answer, course_id)
          /\ disk' = IF SavesModules(answer, course_id)
                     THEN disk \cup {Chars("modules.json")} ELSE disk
    /\ calls' = Append(calls, Call("get_modules", course_id))
    /\ IF modules' = <<>>
       THEN Return(<<[error |-> "No modules found", course |-> course_name]>>)
       ELSE pc' = "classify_modules" /\ UNCHANGED <<result, raised>>
    \* course_analysis is not read after line 720
    /\ course_analysis' = JNull /\ oracle' = Raises
    /\ UNCHANGED <<history_vars, input_vars, endpoint_vars, other, query, courses, course_name, course_id, relevant_modules,
                   mi, items, module_analysis, resource_analysis, relevant_indices,
                   relevance_scores, idx_pos, all_relevant_resources, appended>>

\* line 789
ClassifyModules ==
    /\ pc = "classify_modules"
    /\ \E response \in ModuleResponses :
          /\ oracle' = response
          /\ module_analysis' = AnalyzeModules(response, modules)
    /\ calls' = Append(calls, Call("classify_modules", course_id))
    /\ pc' = "resolve_modules"
    /\ platform' = NoAnswer
    /\ UNCHANGED <<history_vars, input_vars, endpoint_vars, shared_vars, query, catalog_vars, course_analysis, resource_analysis,
                   relevant_indices, relevance_scores, idx_pos, all_relevant_resources,
                   result, raised, appended>>

\* lines 790-814
ResolveModuleList ==
    /\ pc = "resolve_modules"
    /\ LET resolved == ResolveModules(module_analysis, query, modules)
       IN  IF resolved.raised # "none"
           THEN Raise(resolved.raised) /\ UNCHANGED <<relevant_modules, mi>>
           ELSE /\ relevant_modules' = resolved.value
                /\ mi' = 1
                /\ pc' = "next_module"
                /\ UNCHANGED <<result, raised>>
    /\ UNCHANGED <<history_vars, input_vars, endpoint_vars, shared_vars, query, courses, course_name, course_id, modules, items,
                   analysis_vars, all_relevant_resources, calls, platform, oracle,
                   appended>>

\* lines 816-827: the next module of the loop, and its items
GetItems ==
    /\ pc = "next_module"
    /\ mi <= Len(relevant_modules)
    /\ LET module_id == relevant_modules[mi].id
       IN  /\ \E answer \in ListingAnswers(canvas_key, 0)
                            \cup (IF canvas_key /\ module_id \in 101..399
                                  THEN {Answer("ok", PlatformItemCount(module_id))}
                                  ELSE {}) :
                 /\ platform' = answer
                 /\ items' = get_module_items(answer, module_id)
                 /\ listed' = Append(listed, [module |-> relevant_modules[mi].name,
                                               items |-> items'])
           /\ calls' = Append(calls, Call("get_module_items", module_id))
    /\ IF items' = <<>>
       THEN pc' = "next_module" /\ mi' = mi + 1                        \* continue
       ELSE pc' = "classify_resources" /\ mi' = mi
    \* module_analysis is not read after line 790
    /\ module_analysis' = JNull /\ oracle' = Raises
    /\ module_start' = Len(all_relevant_resources)
    /\ UNCHANGED <<input_vars, endpoint_vars, shared_vars, query, courses, course_name, course_id, modules,
                   relevant_modules, course_analysis, resource_analysis, relevant_indices,
                   relevance_scores, idx_pos, all_relevant_resources, result, raised,
                   appended>>

\* lines 832-834
ClassifyResources ==
    /\ pc = "classify_resources"
    /\ \E response \in ResourceResponses :
          /\ oracle' = response
          /\ resource_analysis' = AnalyzeResources(response, items)
    /\ calls' = Append(calls, Call("classify_resources", relevant_modules[mi].id))
    /\ LET indices == RelevantIndices(resource_analysis')
       IN  IF indices.raised # "none"
           THEN /\ Raise(indices.raised)
                /\ UNCHANGED <<relevant_indices, relevance_scores, idx_pos>>
           ELSE /\ relevant_indices' = indices.value
                /\ relevance_scores' = Get(resource_analysis', "relevance_scores", JList(<<>>))
                /\ idx_pos' = 0
                /\ pc' = "collect"
                /\ UNCHANGED <<result, raised>>
    /\ platform' = NoAnswer
    /\ UNCHANGED <<history_vars, input_vars, endpoint_vars, shared_vars, query, catalog_vars, course_analysis, module_analysis,
                   all_relevant_resources, appended>>

\* lines 839-859: one turn of the loop over the indices
Collect ==
    /\ pc = "collect"
    /\ idx_pos < Len(relevant_indices)
    /\ LET idx == relevant_indices[idx_pos + 1]
           calls_file == /\ CallsFileUrl(idx, items)
                         /\ ScoreAt(relevance_scores, idx_pos).raised = "none"
       IN  \E answer \in IF calls_file
                         THEN {Answer(f, 0) : f \in CallFailures(canvas_key)}
                              \cup (IF canvas_key THEN {Answer("ok", 1)} ELSE {})
                         ELSE {platform} :
             LET collected == CollectOne(idx, idx_pos, items, relevance_scores,
                                         course_name, relevant_modules[mi].name, answer)
             IN  /\ platform' = answer
                 /\ calls' = IF calls_file
                             THEN Append(calls, Call("get_file_url",
                                                     ItemAt(items, idx.v).value.content_id))
                             ELSE calls
                 /\ IF collected.raised # "none"
                    THEN /\ Raise(collected.raised)
                         /\ UNCHANGED <<all_relevant_resources, appended, idx_pos>>
                    ELSE /\ all_relevant_resources' = all_relevant_resources \o collected.value
                         /\ appended' = appended \o collected.value
                         /\ idx_pos' = idx_pos + 1
                         /\ UNCHANGED <<pc, result, raised>>
    /\ UNCHANGED <<history_vars, input_vars, endpoint_vars, shared_vars, query, catalog_vars, course_analysis, module_analysis,
                   resource_analysis, relevant_indices, relevance_scores, oracle>>

\* the loop over the indices is over: on to the next module
EndModule ==
    /\ pc = "collect"
    /\ idx_pos = Len(relevant_indices)
    /\ pc' = "next_module"
    /\ mi' = mi + 1
    \* the next turn of the loop assigns these anew before it reads them
    /\ items' = <<>> /\ resource_analysis' = JNull
    /\ relevant_indices' = <<>> /\ relevance_scores' = JNull /\ idx_pos' = 0
    /\ platform' = NoAnswer /\ oracle' = Raises
    /\ UNCHANGED <<history_vars, input_vars, endpoint_vars, shared_vars, query, courses, course_name, course_id, modules,
                   relevant_modules, course_analysis, module_analysis,
                   all_relevant_resources, result, raised, calls, appended>>

\* a variant of ResultOf that returns the list as it is, empty or not
ResourcesOnly(resources, query_used, course) == resources

\* lines 865-883: what is returned after the sort
ResultOf(resources, query_used, course) ==
    IF resources # <<>> THEN resources
    ELSE <<[error |-> "No relevant resources found", query |-> query_used,
            course |-> course]>>

\* a variant of LastModuleDone that ends the loop after its first turn
FirstModuleDone(position, resolved) == position > 1

\* line 816: "for module in relevant_modules" has no module left
LastModuleDone(position, resolved) == position > Len(resolved)

\* lines 862-883: the sort and the return
SortAndReturn ==
    /\ pc = "next_module"
    /\ LastModuleDone(mi, relevant_modules)
    /\ LET sorted == SortByScore(all_relevant_resources)
       IN  IF sorted.raised # "none"
           THEN Raise(sorted.raised) /\ UNCHANGED <<all_relevant_resources, disk>>
           ELSE /\ all_relevant_resources' = sorted.value
                /\ disk' = SaveResources(disk, sorted.value, query)
                /\ Return(ResultOf(sorted.value, query, course_name))
    /\ UNCHANGED <<history_vars, input_vars, endpoint_vars, other, query, catalog_vars, analysis_vars, calls, platform,
                   oracle, appended>>

Next ==
    \/ ImageStage
    \/ GetCourses
    \/ ClassifyCourse
    \/ ResolveCourseName
    \/ GetModules
    \/ ClassifyModules
    \/ ResolveModuleList
    \/ GetItems
    \/ ClassifyResources
    \/ Collect
    \/ EndModule
    \/ SortAndReturn

Spec == Init /\ [][Next]_vars

(***************************************************************************)
(* Course resolution on its own: lines 718-778 of find_resources, started  *)
(* with any course mapping, any query and any string as the course_name of *)
(* course_analysis.                                                        *)
(***************************************************************************)
\* a mapping with a course whose name shares one word of seven with the
\* scenario's query
SeminarCourses ==
    <<PlatformCourses[2],
      [name |-> Chars("Social Work Field Practice Ethics Policy Seminar"), id |-> 40]>>

\* sub-listings of the platform's courses, in both orders, the mock data and
\* the seminar mapping
CourseMappings ==
    {SubSeq(PlatformCourses, a, b) : a, b \in 1..Min(MaxCourses, Len(PlatformCourses))}
    \cup {<<PlatformCourses[2], PlatformCourses[1]>>, MockCourses, SeminarCourses}

RawGuesses ==
    { <<>>, Chars("CSE520"), Chars("cse 520"), Chars("zzz"), Chars("Algebra"),
      Chars("MAT 343: Linear Algebra"), Chars("Operating Systems and Linear Algebra"),
      Chars("mock course 2"), Chars("Introduction to Operating Systems"),
      ScenarioQuery }

InitResolve ==
    /\ pc = "resolve_course"
    /\ canvas_key = TRUE
    /\ image_path = "none"
    /\ input_query \in Queries \cup {Chars("linear systems"), Chars("algebra"), Chars("system")}
    /\ query = input_query
    /\ courses \in CourseMappings \ {<<>>}
    /\ course_analysis \in {JObject([course_name |-> JString(guess)]) : guess \in RawGuesses}
    /\ course_name = None /\ course_id = 0
    /\ modules = <<>> /\ module_analysis = JNull /\ relevant_modules = <<>> /\ mi = 0
    /\ items = <<>> /\ resource_analysis = JNull
    /\ relevant_indices = <<>> /\ relevance_scores = JNull /\ idx_pos = 0
    /\ all_relevant_resources = <<>>
    /\ result = <<>>
    /\ raised = "none"
    /\ calls = <<>>
    /\ platform = NoAnswer
    /\ oracle = Raises
    /\ appended = <<>>
    /\ module_start = 0
    /\ listed = <<>>
    /\ http_response = NoResponse
    /\ disk = InitialFiles
    /\ other = "absent"

SpecResolve == InitResolve /\ [][ResolveCourseName]_vars

(***************************************************************************)
(* resources_endpoint (lines 654-688): GET /resources, which validates the *)
(* parameters, calls find_resources and answers.  The platform is not      *)
(* configured in these requests.                                           *)
(***************************************************************************)
InitEndpoint ==
    /\ pc = "request"
    /\ canvas_key = FALSE
    /\ image_path \in {"none", "missing", "exists"}
    /\ input_query \in (IF image_path = "none" THEN Queries ELSE ImageQueries)
    /\ query = input_query
    /\ courses = <<>> /\ course_analysis = JNull /\ course_name = None /\ course_id = 0
    /\ modules = <<>> /\ module_analysis = JNull /\ relevant_modules = <<>> /\ mi = 0
    /\ items = <<>> /\ resource_analysis = JNull
    /\ relevant_indices = <<>> /\ relevance_scores = JNull /\ idx_pos = 0
    /\ all_relevant_resources = <<>>
    /\ result = <<>>
    /\ raised = "none"
    /\ calls = <<>>
    /\ platform = NoAnswer
    /\ oracle = Raises
    /\ appended = <<>>
    /\ module_start = 0
    /\ listed = <<>>
    /\ http_response = NoResponse
    /\ disk = InitialFiles
    /\ other = "absent"

\* line 662: not query and not image_path
BothEmpty(query_param, image_param) == query_param = <<>> /\ image_param = "none"

\* lines 661-671: the parameters are validated
Validate ==
    /\ pc = "request"
    /\ IF BothEmpty(input_query, image_path)
       THEN /\ http_response' = [status |-> 400,
                            body |-> <<[error |-> "Either query or image_path must be provided"]>>]
            /\ pc' = "answered"
       ELSE /\ pc' = "start"
            /\ UNCHANGED http_response
    /\ UNCHANGED <<history_vars, input_vars, shared_vars, query, catalog_vars, analysis_vars,
                   all_relevant_resources, result, raised, calls, platform, oracle, appended>>

\* a variant of Answer500 that lets the exception through
NoAnswer500(exception) == NoResponse

\* lines 677-688: the answer to an exception of find_resources
Answer500(exception) ==
    [status |-> 500,
     body |-> <<[error |-> "Internal server error", message |-> exception]>>]

\* lines 674-688: find_resources has ended, and the endpoint answers with
\* the list it returned, or with status 500 if it raised
Respond ==
    /\ pc = "done"
    /\ http_response' = IF raised = "none" THEN [status |-> 200, body |-> result]
                   ELSE Answer500(raised)
    /\ pc' = "answered"
    /\ UNCHANGED <<history_vars, input_vars, shared_vars, query, catalog_vars, analysis_vars,
                   all_relevant_resources, result, raised, calls, platform, oracle, appended>>

NextEndpoint == Validate \/ Next \/ Respond

SpecEndpoint == InitEndpoint /\ [][NextEndpoint]_vars

(***************************************************************************)
(* Collaborators that never answer.  The catalog calls are made with       *)
(* timeout=10 (lines 57, 128, 204, 266), so a platform that does not       *)
(* answer is the failure "exception" of a listing call.  The classifier is *)
(* called as model.generate_content(prompt), with no timeout (lines 356,   *)
(* 431, 504, 616): if it does not answer, the call does not return.        *)
(* The requests are text queries.                                          *)
(***************************************************************************)
InitTimeout ==
    /\ pc = "start"
    /\ canvas_key \in BOOLEAN
    /\ image_path \in {"none", "missing"}
    /\ input_query = Chars("hi")
    /\ query = input_query
    /\ courses = <<>> /\ course_analysis = JNull /\ course_name = None /\ course_id = 0
    /\ modules = <<>> /\ module_analysis = JNull /\ relevant_modules = <<>> /\ mi = 0
    /\ items = <<>> /\ resource_analysis = JNull
    /\ relevant_indices = <<>> /\ relevance_scores = JNull /\ idx_pos = 0
    /\ all_relevant_resources = <<>>
    /\ result = <<>>
    /\ raised = "none"
    /\ calls = <<>>
    /\ platform = NoAnswer
    /\ oracle = Raises
    /\ appended = <<>>
    /\ module_start = 0
    /\ listed = <<>>
    /\ http_response = NoResponse
    /\ disk = InitialFiles
    /\ other = "absent"

\* the call of the classifier that the request is about to make, if any
ClassifierCall ==
    CASE pc = "start" /\ image_path = "exists" -> "analyze_image_with_gemini"
      [] pc = "classify_course" -> "classify_course"
      [] pc = "classify_modules" -> "classify_modules"
      [] pc = "classify_resources" -> "classify_resources"
      [] OTHER -> "none"

\* generate_content is called and the classifier never answers: the request
\* waits in the call from then on
NeverAnswers ==
    /\ ClassifierCall # "none"
    /\ calls' = Append(calls, Call(ClassifierCall, 0))
    /\ pc' = "waiting"
    /\ UNCHANGED <<history_vars, input_vars, endpoint_vars, shared_vars, query, catalog_vars, analysis_vars,
                   all_relevant_resources, result, raised, platform, oracle, appended>>

NextTimeout == Next \/ NeverAnswers

\* find_resources runs in one thread, which goes on as long as it can
SpecTimeout == InitTimeout /\ [][NextTimeout]_vars /\ WF_vars(NextTimeout)

(***************************************************************************)
(* Two requests in one working directory.  What a request leaves where     *)
(* another can find it is what it saves: courses.json, modules.json and    *)
(* resources_<query>.json (genai.configure, lines 321, 395 and 588, sets   *)
(* the same key in every request).  One request is followed step by step;  *)
(* the other is followed through the files it saves, in the order          *)
(* find_resources saves them, its steps interleaved with the first's.  The *)
(* platform is not configured in these requests.                           *)
(***************************************************************************)
\* the query of the other request
OtherQuery == Chars("hi")

\* the image paths of the request: files that the program saves
SavedPaths == {"courses.json", "resources_hi.json"}

request_vars == <<pc, canvas_key, image_path, input_query, query, courses, course_analysis,
                  course_name, course_id, modules, module_analysis, relevant_modules, mi,
                  items, resource_analysis, relevant_indices, relevance_scores, idx_pos,
                  all_relevant_resources, result, raised, calls, platform, oracle, appended,
                  module_start, listed, http_response>>

InitTwo ==
    /\ pc = "start"
    /\ canvas_key = FALSE
    /\ image_path \in SavedPaths
    /\ input_query = Chars("hi")
    /\ query = input_query
    /\ courses = <<>> /\ course_analysis = JNull /\ course_name = None /\ course_id = 0
    /\ modules = <<>> /\ module_analysis = JNull /\ relevant_modules = <<>> /\ mi = 0
    /\ items = <<>> /\ resource_analysis = JNull
    /\ relevant_indices = <<>> /\ relevance_scores = JNull /\ idx_pos = 0
    /\ all_relevant_resources = <<>>
    /\ result = <<>>
    /\ raised = "none"
    /\ calls = <<>>
    /\ platform = NoAnswer
    /\ oracle = Raises
    /\ appended = <<>>
    /\ module_start = 0
    /\ listed = <<>>
    /\ http_response = NoResponse
    /\ disk = InitialFiles
    /\ other = "get_courses"

\* lines 707 and 78-86, in the other request
OtherGetCourses ==
    /\ other = "get_courses"
    /\ \E answer \in ListingAnswers(canvas_key, MaxCourses) :
          disk' = IF SavesCourses(answer) THEN disk \cup {Chars("courses.json")} ELSE disk
    /\ other' = "get_modules"
    /\ UNCHANGED request_vars

\* lines 781 and 144-152, in the other request
OtherGetModules ==
    /\ other = "get_modules"
    /\ \E c \in 1..MaxCourses :
       \E answer \in ListingAnswers(canvas_key, MaxModules) :
          disk' = IF SavesModules(answer, PlatformCourses[c].id)
                  THEN disk \cup {Chars("modules.json")} ELSE disk
    /\ other' = "return"
    /\ UNCHANGED request_vars

\* lines 865-878, in the other request, which returns resources
OtherReturn ==
    /\ other = "return"
    /\ disk' = disk \cup {ResourcesFile(OtherQuery)}
    /\ other' = "done"
    /\ UNCHANGED request_vars

NextTwo == Next \/ OtherGetCourses \/ OtherGetModules \/ OtherReturn

SpecTwo == InitTwo /\ [][NextTwo]_vars

(***************************************************************************)
(* Properties                                                              *)
(***************************************************************************)
LastCall == IF calls = <<>> THEN "none" ELSE calls[Len(calls)].fn

\* find_resources has returned a list
HasReturned == pc = "done" /\ raised = "none"

IsErrorRecord(r) == "error" \in DOMAIN r

\* find_resources has returned resources
ReturnedResources == HasReturned /\ result # <<>> /\ ~IsErrorRecord(result[1])

\* C1: with a non-empty course listing, whatever the classifier does at any
\* of the three stages, find_resources returns a list of records and never
\* raises an exception.
C1_NeverRaises == pc = "done" => (raised = "none" /\ result # <<>>)

\* the URLs that get_file_url can return for a file
FileUrls(file_id) == {get_file_url(Answer(kind, 1), file_id) : kind \in Failures \cup {"ok"}}

\* resource r has the title and type of the listed item, and its URL or the
\* file URL resolved for it
FromItem(r, item) ==
    /\ r.title = item.title
    /\ r.type = item.type
    /\ \/ r.url = item.html_url
       \/ item.type = "File" /\ item.content_id # 0 /\ r.url \in FileUrls(item.content_id)

C3_ResolvesToKey ==
    pc # "resolve_course" =>
        /\ pc = "get_modules"
        /\ raised = "none"
        /\ course_name \in Keys(courses)
        /\ \E i \in 1..Len(courses) : courses[i] = [name |-> course_name, id |-> course_id]

\* a guess that is no key and matches nothing was resolved, to the first course
C3_Witness ==
    /\ pc = "get_modules"
    /\ course_analysis.v.course_name.v = Chars("zzz")
    /\ course_analysis.v.course_name.v \notin Keys(courses)
    /\ Len(courses) >= 2
    /\ course_name = courses[1].name

\* the classifier's course_name is a string that is a key of the mapping
ExactGuess ==
    /\ oracle.kind = "json"
    /\ HasKey(oracle.value, "course_name")
    /\ oracle.value.v.course_name.t = "str"
    /\ oracle.value.v.course_name.v \in Keys(courses)

\* C4: whenever the classifier's course_name is verbatim a key of the course
\* mapping, that course is the one selected, whatever the query and whatever
\* the other candidates match.
C4_ExactMatchWins ==
    (LastCall = "classify_course" /\ pc # "resolve_course" /\ ExactGuess) =>
        /\ pc = "get_modules"
        /\ course_name = oracle.value.v.course_name.v

\* an exact guess was selected although another course shares a word of more
\* than 3 characters with the query
C4_Witness ==
    /\ LastCall = "classify_course" /\ pc = "get_modules" /\ ExactGuess
    /\ course_name = oracle.value.v.course_name.v
    /\ \E i \in 1..Len(courses) :
          /\ courses[i].name # course_name
          /\ WordSet(query, 3) \cap WordSet(courses[i].name, 3) # {}

\* the relevance scores of a list of resources, in its order
Scores(resources) == [i \in 1..Len(resources) |-> resources[i].relevance_score]

\* C5: the list returned on success is ordered by non-increasing
\* relevance_score, and the resources of equal score are in the order in
\* which they were appended (module after module, and within a module in the
\* order of the classifier's indices).
C5_SortedStable ==
    ReturnedResources =>
        /\ Len(result) = Len(appended)
        /\ \A i, j \in 1..Len(result) :
              i < j => ~KeyLess(result[i].relevance_score, result[j].relevance_score)
        /\ \A i \in 1..Len(result) :
              LET Same(r) == r.relevance_score = result[i].relevance_score
              IN  SelectSeq(result, Same) = SelectSeq(appended, Same)

\* the scores appended were 0.9, 0.4 for one module and 0.95, 0.3 for the
\* next one, and the result has the order 0.95, 0.9, 0.4, 0.3
C5_Witness ==
    /\ ReturnedResources
    /\ Scores(appended) = <<JNumber(90), JNumber(40), JNumber(95), JNumber(30)>>
    /\ appended[1].module = appended[2].module
    /\ appended[3].module = appended[4].module
    /\ appended[1].module # appended[3].module
    /\ Scores(result) = <<JNumber(95), JNumber(90), JNumber(40), JNumber(30)>>

\* the query find_resources works with, given its arguments
QueriesUsed ==
    IF image_path = "exists"
    THEN {CombineQuery(input_query, analyze_image_with_gemini(outcome)) :
             outcome \in ImageOutcomes}
    ELSE {input_query}

\* C6: find_resources never returns an empty list; when no resource was
\* collected from any module it returns exactly one record, with error "No
\* relevant resources found", the query after the image's concept was put
\* into it, and the resolved course name.
C6_NeverEmptyList ==
    HasReturned =>
        /\ result # <<>>
        /\ appended = <<>> =>
              /\ Len(result) = 1
              /\ DOMAIN result[1] = {"error", "query", "course"}
              /\ result[1].error = "No relevant resources found"
              /\ result[1].query = query /\ query \in QueriesUsed
              /\ result[1].course = course_name /\ course_name \in Keys(courses)

\* nothing was collected from two modules, for a query made of an image's
\* concept and a text
C6_Witness ==
    /\ HasReturned
    /\ appended = <<>>
    /\ Len(relevant_modules) = 2
    /\ image_path = "exists" /\ input_query # <<>> /\ query # input_query
    /\ result[1].error = "No relevant resources found"
    /\ result[1].query = query

\* C7: when the course listing is empty, find_resources returns a single
\* record with error "No courses found", without raising, and calls nothing
\* after get_courses.
C7_NoCourses ==
    (LastCall = "get_courses" /\ platform = Answer("ok", 0)) =>
        /\ HasReturned
        /\ Len(result) = 1
        /\ IsErrorRecord(result[1])
        /\ result[1].error = "No courses found"

\* C8: when the module listing of the resolved course is empty,
\* find_resources returns a single record with error "No modules found" and
\* the resolved course name, and calls nothing after get_modules.
C8_NoModules ==
    (LastCall = "get_modules" /\ platform = Answer("ok", 0)) =>
        /\ HasReturned
        /\ Len(result) = 1
        /\ IsErrorRecord(result[1])
        /\ result[1].error = "No modules found"
        /\ result[1].course = course_name

\* the resource stage of a module is in progress, or has raised
InResourceStage ==
    \/ pc = "collect"
    \/ pc = "done" /\ raised # "none" /\ mi \in 1..Len(relevant_modules)

\* the classifier's answer has the expected structure: a JSON object with a
\* list of integers resource_indices and a list of numbers relevance_scores
ExpectedStructure(response) ==
    /\ response.kind = "json"
    /\ HasKey(response.value, "resource_indices")
    /\ HasKey(response.value, "relevance_scores")
    /\ response.value.v.resource_indices.t = "list"
    /\ \A i \in 1..Len(response.value.v.resource_indices.v) :
          response.value.v.resource_indices.v[i].t = "num"
    /\ response.value.v.relevance_scores.t = "list"
    /\ \A i \in 1..Len(response.value.v.relevance_scores.v) :
          response.value.v.relevance_scores.v[i].t = "num"

\* C9: when the classifier's answer for a module with N items has not the
\* expected structure, the guess used is the indices 0..min(3,N)-1, each with
\* score 0.8, and the module contributes exactly its first min(3,N) items,
\* each with relevance_score 0.8.
C9_FallbackSelection ==
    (InResourceStage /\ ~ExpectedStructure(oracle)) =>
        LET n == Min(3, Len(items))
        IN  /\ pc = "collect"
            /\ relevant_indices = [i \in 1..n |-> JNumber(i - 1)]
            /\ relevance_scores = JList([i \in 1..n |-> JNumber(80)])
            /\ idx_pos = n =>
                  /\ Len(appended) = module_start + n
                  /\ \A i \in 1..n :
                        /\ appended[module_start + i].title = items[i].title
                        /\ appended[module_start + i].relevance_score = JNumber(80)

\* the positions, among the first n of the guess, of the indices that the
\* bounds check lets through
Kept(n) == {p \in 1..n : relevant_indices[p].v < Len(items)}

\* C10: for a module with N items, an index i >= N of the guess is dropped
\* without an exception and contributes no resource, and an index i with
\* 0 <= i < N contributes the item at position i of the module's listing,
\* whatever indices were dropped before it (the guess being a list of
\* integers, with a list of scores).
C10_BoundsChecked ==
    /\ pc = "collect" =>
          /\ Len(appended) = module_start + Cardinality(Kept(idx_pos))
          /\ \A p \in 1..idx_pos :
                LET idx == relevant_indices[p].v
                IN  (0 <= idx /\ idx < Len(items)) =>
                        LET r == appended[module_start + Cardinality(Kept(p))]
                        IN  /\ r.title = items[idx + 1].title
                            /\ r.type = items[idx + 1].type
                            /\ r.module = relevant_modules[mi].name
    /\ (pc = "done" /\ raised # "none" /\ idx_pos < Len(relevant_indices)) =>
          LET idx == relevant_indices[idx_pos + 1]
          IN  \/ idx.t # "num"
              \/ idx.v < 0 - Len(items)
              \/ relevance_scores.t # "list"

\* the guess [1, N, 0] for a module with N items: N was dropped, and the
\* items 1 and 0 were collected, in this order
C10_Witness ==
    /\ pc = "collect"
    /\ relevant_indices = Nums(<<1, Len(items), 0>>)
    /\ idx_pos = 3
    /\ Len(appended) = module_start + 2
    /\ appended[module_start + 1].title = items[2].title
    /\ appended[module_start + 2].title = items[1].title

\* the text analyze_image_with_gemini can give for an image
Concepts == {analyze_image_with_gemini(outcome) : outcome \in ImageOutcomes}

ImageCalls == {i \in 1..Len(calls) : calls[i].fn = "analyze_image_with_gemini"}

\* C11: when an image path is given and the file exists, the query of all
\* later stages is "<query> - <concept>" for a non-empty query and
\* "<concept>" otherwise, the concept being asked for once; with no image
\* path, or a file that does not exist, the query is the request's and the
\* image classifier is not called.
C11_QueryConstruction ==
    pc # "start" =>
        IF image_path = "exists"
        THEN /\ \E concept \in Concepts :
                   query = IF input_query # <<>>
                           THEN input_query \o <<" ", "-", " ">> \o concept
                           ELSE concept
             /\ ImageCalls = {1}
        ELSE query = input_query /\ ImageCalls = {}

\* a request with a text and an image has returned, after all stages, the
\* record that carries the query "<query> - <concept>"
C11_Witness ==
    /\ HasReturned /\ appended = <<>>
    /\ image_path = "exists"
    /\ input_query = Chars("hi")
    /\ result[1].query = Chars("hi - scalars and orthogonal matrices")

\* the image was analysed, and not with the classifier's text as the outcome
ImageFailed ==
    /\ pc # "start"
    /\ image_path = "exists"
    /\ query # CombineQuery(input_query, ImageConcept)

\* C12: analyze_image_with_gemini never raises; on any failure it returns
\* one fixed string, the same for every kind of failure, and the pipeline
\* goes on with that string as the concept.
C12_OneSentinel ==
    /\ pc = "get_courses" => raised = "none"
    /\ ImageFailed =>
          \A outcome \in ImageOutcomes \ {"ok"} :
              query = CombineQuery(input_query, analyze_image_with_gemini(outcome))

\* C13: resources_endpoint answers 400 without calling find_resources when
\* query and image_path are both empty; it answers 500, with a body that
\* carries error and message, when find_resources raises; in every other
\* case it answers with exactly the list find_resources returned.
C13_EndpointAnswers ==
    /\ (input_query = <<>> /\ image_path = "none") =>
          /\ pc \in {"request", "answered"}
          /\ calls = <<>>
          /\ pc = "answered" => http_response.status = 400
    /\ (pc = "answered" /\ ~(input_query = <<>> /\ image_path = "none")) =>
          IF raised # "none"
          THEN /\ http_response.status = 500
               /\ Len(http_response.body) = 1
               /\ DOMAIN http_response.body[1] = {"error", "message"}
               /\ http_response.body[1].message = raised
          ELSE /\ http_response.status = 200
               /\ http_response.body = result
               /\ result # <<>>
    /\ pc # "answered" => http_response = NoResponse

\* the endpoint has answered 500 to a request whose course classification
\* was a JSON list
C13_Witness ==
    /\ pc = "answered"
    /\ raised = "AttributeError"
    /\ http_response.status = 500
    /\ http_response.body[1].message = "AttributeError"
    /\ input_query # <<>>

\* C14: when a listing call fails (no credential, status other than 200,
\* timeout, malformed body), get_courses, get_modules and get_module_items
\* return the empty listing; and a listing returned never has an entry that
\* the platform did not return.
C14_EmptySignal ==
    /\ (LastCall = "get_courses" /\ platform.kind \in Failures) => courses = <<>>
    /\ (LastCall = "get_modules" /\ platform.kind \in Failures) => modules = <<>>
    /\ (LastCall = "get_module_items" /\ platform.kind \in Failures) => items = <<>>
    /\ \A i \in 1..Len(courses) : courses[i] \in Range(PlatformCourses)
    /\ \A i \in 1..Len(modules) : modules[i] \in Range(PlatformModules(course_id))
    /\ \A l \in 1..Len(listed) : \A k \in 1..Len(listed[l].items) :
          \E m \in 1..Len(modules) :
              /\ modules[m].name = listed[l].module
              /\ listed[l].items[k] = PlatformItem(modules[m].id, k)

\* C15: every invocation of find_resources eventually ends, even if a
\* remote collaborator never answers: each remote call is given up after a
\* bounded wait.
C15_EventuallyReturns == <>(pc = "done")

\* the scenario: the query about process scheduling, the courses CSE 520
\* and MAT 343, in this order, and the classifier's course_name "CSE520";
\* the course has just been resolved
ScenarioCSE520 ==
    /\ pc = "get_modules"
    /\ query = ScenarioQuery
    /\ courses = SubSeq(PlatformCourses, 1, 2)
    /\ oracle = Json(Reasoned("CSE520"))

\* the course of course_analysis is the first key of the mapping, put there
\* because the classifier's name was found invalid
DefaultSelection(analysis) ==
    /\ HasKey(analysis, "reasoning")
    /\ analysis.v.reasoning = JString(Chars("Default selection (invalid course name from LLM)"))
    /\ analysis.v.course_name = JString(courses[1].name)

\* C17: in the scenario the course selected is "CSE 520: Operating Systems",
\* and it is reached by matching the guess with the candidates (substring,
\* token overlap), not by the fallback to the first candidate.
C17_ScenarioByMatching ==
    ScenarioCSE520 =>
        /\ course_name = Chars("CSE 520: Operating Systems")
        /\ course_id = 10
        /\ ~DefaultSelection(course_analysis)

\* the positions of the candidates that the guess is a substring of, or
\* that are a substring of the guess, whatever the case of the letters
SubstringMatches(guess, candidates) ==
    {i \in 1..Len(candidates) :
        \/ IsSubstr(Lower(guess), Lower(candidates[i].name))
        \/ IsSubstr(Lower(candidates[i].name), Lower(guess))}

\* the classifier has named a course with a string that is no key, and the
\* course has been resolved
InexactGuess ==
    /\ LastCall = "classify_course" /\ pc \in {"get_modules", "done"}
    /\ oracle.kind = "json"
    /\ HasKey(oracle.value, "course_name")
    /\ oracle.value.v.course_name.t = "str"
    /\ oracle.value.v.course_name.v \notin Keys(courses)

\* C18: when the raw guess is no key but is a substring of a candidate's
\* name, or that name a substring of the guess (case-insensitive), a
\* candidate matching in this way is selected, whatever token overlap the
\* other candidates have.
C18_SubstringBeforeOverlap ==
    (InexactGuess /\ SubstringMatches(oracle.value.v.course_name.v, courses) # {}) =>
        /\ pc = "get_modules"
        /\ \E i \in SubstringMatches(oracle.value.v.course_name.v, courses) :
              course_name = courses[i].name

\* |A \cap B| / min(|A|, |B|) for the words of more than 3 characters of a
\* text and of a course name, as a fraction; 0 when either has no such word
OverlapScore(text, name) ==
    LET A == WordSet(text, 3)
        B == WordSet(name, 3)
    IN  IF A = {} \/ B = {} THEN [num |-> 0, den |-> 1]
        ELSE [num |-> Cardinality(A \cap B), den |-> Min(Cardinality(A), Cardinality(B))]

\* the first candidate, in the mapping's order, with the highest overlap score
BestByOverlap(text, candidates) ==
    CHOOSE i \in 1..Len(candidates) :
        \A j \in 1..Len(candidates) :
            LET si == OverlapScore(text, candidates[i].name)
                sj == OverlapScore(text, candidates[j].name)
            IN  \/ si.num * sj.den > sj.num * si.den
                \/ si.num * sj.den = sj.num * si.den /\ i <= j

\* the raw guess that course resolution is started with
RawGuess == course_analysis.v.course_name.v

\* the raw guess is no key and no substring match, and the highest overlap
\* score, of the guess and of the query alike, is positive and below 0.2
BelowThreshold ==
    /\ RawGuess \notin Keys(courses)
    /\ SubstringMatches(RawGuess, courses) = {}
    /\ \A text \in {RawGuess, query} :
          LET s == OverlapScore(text, courses[BestByOverlap(text, courses)].name)
          IN  s.num > 0 /\ 5 * s.num < s.den

GuessOverlaps ==
    /\ RawGuess \notin Keys(courses)
    /\ SubstringMatches(RawGuess, courses) = {}
    /\ LET s == OverlapScore(RawGuess, courses[BestByOverlap(RawGuess, courses)].name)
       IN  5 * s.num >= s.den

ImageAtStart == image_path # "none" /\ PathExists(image_path, InitialFiles)

\* the course resolution of the request run alone, when there is no image
\* at the start: lines 718-778 with the query of the request
CourseAlone ==
    ResolveCourse(Get(course_analysis, "course_name", JNull), input_query, courses)

\* C16: a request returns what it returns when run alone against the same
\* catalog and classifier answers, whatever another request does meanwhile:
\* nothing another request writes is read.  For a request whose image path
\* names no file when the requests begin, the image classifier is not
\* called, the query stays the request's, and course resolution ends as it
\* does alone on the same course analysis.
C16_AsIfAlone ==
    (~ImageAtStart /\ pc # "start") =>
        /\ ImageCalls = {}
        /\ query = input_query
        /\ (LastCall = "classify_course" /\ pc \in {"get_modules", "done"}
              /\ course_analysis.t = "obj") =>
              IF CourseAlone.raised # "none"
              THEN pc = "done" /\ raised = CourseAlone.raised
              ELSE IF CourseAlone.value \notin Keys(courses)
              THEN pc = "done" /\ raised = "KeyError"
              ELSE pc = "get_modules" /\ course_name = CourseAlone.value

\* exact, substring and token-overlap matching all fail: the raw guess is no
\* key and no substring match, and no overlap score, of the guess or of the
\* query, reaches 0.2
StagesFail ==
    /\ RawGuess \notin Keys(courses)
    /\ SubstringMatches(RawGuess, courses) = {}
    /\ \A text \in {RawGuess, query} :
          LET s == OverlapScore(text, courses[BestByOverlap(text, courses)].name)
          IN  5 * s.num < s.den

ModulesResolved == LastCall = "classify_modules" /\ pc = "next_module" /\ mi = 1

\* the names the module analysis suggests, after its validation
SuggestedNames ==
    IF HasKey(module_analysis, "module_names")
    THEN {module_analysis.v.module_names.v[i].v :
             i \in 1..Len(module_analysis.v.module_names.v)}
    ELSE {}

\* the positions, in the listing, of the modules with a suggested name
SuggestedModules == {i \in 1..Len(modules) : modules[i].name \in SuggestedNames}

\* the positions of the modules whose name contains, case-insensitively, a
\* query word of more than 3 characters
KeywordModules ==
    {i \in 1..Len(modules) :
        \E w \in WordSet(query, 3) : IsSubstr(w, Lower(modules[i].name))}

\* the modules at the given positions, each once, in the listing's order
ModulesAt(positions) ==
    [k \in 1..Cardinality(positions) |->
        modules[CHOOSE i \in positions : Cardinality({j \in positions : j < i}) = k - 1]]

ModuleClassifierFailed ==
    \/ oracle.kind = "exception"
    \/ /\ oracle.kind = "text"
       /\ \A i \in 1..Len(modules) : ~IsSubstr(Lower(modules[i].name), Lower(oracle.text))

\* C23: when the module classification fails and no module name contains a
\* query word of more than 3 characters, the resolved modules are the first
\* min(2, N) modules of the listing.
C23_FailureFallback ==
    (ModulesResolved /\ ModuleClassifierFailed /\ KeywordModules = {}) =>
        relevant_modules = SubSeq(modules, 1, Min(2, Len(modules)))

\* the orders in which the resolved modules can complete
CompletionOrders ==
    {order \in [1..Len(relevant_modules) -> 1..Len(relevant_modules)] :
        \A a, b \in 1..Len(relevant_modules) : order[a] = order[b] => a = b}

RECURSIVE AppendedIn(_, _)
\* the records appended, had the modules completed in the given order: the
\* records of order[k]'s module, for k from the given position on
AppendedIn(order, k) ==
    IF k > Len(order) THEN <<>>
    ELSE SelectSeq(appended, LAMBDA r : r.module = relevant_modules[order[k]].name)
         \o AppendedIn(order, k + 1)

\* C24: the list returned is the same for every order in which the resolved
\* modules' records are appended before the sort.
C24_OrderIndependent ==
    ReturnedResources =>
        \A order \in CompletionOrders :
            /\ SortByScore(AppendedIn(order, 1)).raised = "none"
            /\ SortByScore(AppendedIn(order, 1)).value = result

\* the calls that every run begins with, in their order
HeadCalls ==
    (IF image_path = "exists" THEN <<"analyze_image_with_gemini">> ELSE <<>>)
    \o <<"get_courses", "classify_course", "get_modules", "classify_modules">>

\* the positions, in calls, of the item listings
ItemCalls == {i \in 1..Len(calls) : calls[i].fn = "get_module_items"}

\* C25: the external calls of a run are, in this order: the image
\* description if there is an image, the course listing, one course
\* classification, one module listing for the selected course, one module
\* classification, then for each resolved module in order its item listing
\* followed by at most one resource classification for that module (and the
\* file lookups of its items); the list is returned only after the last
\* resolved module has had its turn.
C25_LinearOrder ==
    /\ \A i \in 1..Len(calls) :
          IF i <= Len(HeadCalls)
          THEN /\ calls[i].fn = HeadCalls[i]
               /\ calls[i].fn = "get_modules" => calls[i].arg = course_id
          ELSE LET turn == Cardinality({j \in ItemCalls : j <= i})
               IN  CASE calls[i].fn = "get_module_items" ->
                          /\ turn <= Len(relevant_modules)
                          /\ calls[i].arg = relevant_modules[turn].id
                     [] calls[i].fn = "classify_resources" ->
                          /\ calls[i - 1].fn = "get_module_items"
                          /\ calls[i].arg = calls[i - 1].arg
                     [] calls[i].fn = "get_file_url" ->
                          calls[i - 1].fn \in {"classify_resources", "get_file_url"}
                     [] OTHER -> FALSE
    /\ HasReturned => Cardinality(ItemCalls) = Len(relevant_modules)

\* a run with an image and two resolved modules, each with its item listing,
\* its resource classification and a file lookup, has returned
C25_Witness ==
    /\ HasReturned
    /\ image_path = "exists"
    /\ Len(relevant_modules) = 2
    /\ \A i \in ItemCalls :
          /\ i + 2 <= Len(calls)
          /\ calls[i + 1].fn = "classify_resources"
          /\ calls[i + 2].fn = "get_file_url"

\* C26: when the item listing of a resolved module is empty, the module is
\* skipped: no resource classification is called for it and the loop goes
\* on with the next resolved module, nothing having been appended.
C26_EmptyListingSkipped ==
    (LastCall = "get_module_items" /\ platform = Answer("ok", 0)) =>
        /\ pc = "next_module"
        /\ items = <<>>
        /\ Len(all_relevant_resources) = module_start

\* the course analysis just made is an object with a course_name key
NamesCourse ==
    /\ LastCall = "classify_course"
    /\ pc \in {"resolve_course", "get_modules", "done"}
    /\ HasKey(course_analysis, "course_name")

\* similarity / max(len(name), len(guess)) of candidate i is more than that
\* of candidate j
MoreSimilar(guess, i, j) ==
    Similarity(courses[i].name, guess) * Max(Len(courses[j].name), Len(guess))
        > Similarity(courses[j].name, guess) * Max(Len(courses[i].name), Len(guess))

\* the replacement of a name that is not in the mapping: the first candidate
\* of the highest same-position similarity if that exceeds 0.5, else the
\* first course
Replacement(guess) ==
    LET best == CHOOSE i \in 1..Len(courses) :
                    \A j \in 1..Len(courses) :
                        ~MoreSimilar(guess, j, i) /\ (j < i => MoreSimilar(guess, i, j))
    IN  IF 2 * Similarity(courses[best].name, guess)
             > Max(Len(courses[best].name), Len(guess))
        THEN courses[best].name
        ELSE courses[1].name

\* C27: whenever the course analysis has a course_name key, its value is a
\* key of the mapping; a name of the classifier that is not in the mapping
\* has been replaced by the candidate of the highest same-position
\* similarity if that exceeds 0.5 and by the first course otherwise; and
\* course resolution then selects that course without entering the partial
\* matching.
C27_AnalysisNamesKey ==
    NamesCourse =>
        /\ course_analysis.v.course_name.t = "str"
        /\ course_analysis.v.course_name.v \in Keys(courses)
        /\ (/\ oracle.kind = "json"
            /\ HasKey(oracle.value, "course_name")
            /\ oracle.value.v.course_name.t = "str"
            /\ oracle.value.v.course_name.v \notin Keys(courses)) =>
               course_analysis.v.course_name.v = Replacement(oracle.value.v.course_name.v)
        /\ pc # "resolve_course" =>
               pc = "get_modules" /\ course_name = course_analysis.v.course_name.v

\* C28: for a module with N items, a negative index i of the guess with
\* -N <= i < 0 passes the bounds check and contributes the item at position
\* N + i of the listing, with the score at the index's position in
\* relevance_scores, or 0.5 when relevance_scores is shorter than that.
C28_NegativeIndexKept ==
    (pc = "collect" /\ relevance_scores.t = "list") =>
        \A p \in 1..idx_pos :
            LET idx == relevant_indices[p].v
            IN  (0 - Len(items) <= idx /\ idx < 0) =>
                    /\ p \in Kept(p)
                    /\ LET r == appended[module_start + Cardinality(Kept(p))]
                       IN  /\ r.title = items[Len(items) + idx + 1].title
                           /\ r.type = items[Len(items) + idx + 1].type
                           /\ r.module = relevant_modules[mi].name
                           /\ r.relevance_score =
                                 IF p <= Len(relevance_scores.v)
                                 THEN relevance_scores.v[p]
                                 ELSE JNumber(50)

\* the guess [-1, 0] with the one score 0.7, for a module with several
\* items: the last item was collected with 0.7 and the first with 0.5
C28_Witness ==
    /\ pc = "collect"
    /\ relevant_indices = Nums(<<0 - 1, 0>>)
    /\ relevance_scores = JList(Nums(<<70>>))
    /\ idx_pos = 2
    /\ Len(items) >= 2
    /\ Len(appended) = module_start + 2
    /\ appended[module_start + 1].title = items[Len(items)].title
    /\ appended[module_start + 1].relevance_score = JNumber(70)
    /\ appended[module_start + 2].title = items[1].title
    /\ appended[module_start + 2].relevance_score = JNumber(50)

====
